---- MODULE Spec2Model ----
(***************************************************************************)
(* Model of the decision-tree core (src/tree.py): the node/tree data       *)
(* model, the traversal engine with its result cache, and path             *)
(* enumeration.  Python's None is the string None, a dict is a sequence of *)
(* <<key, value>> pairs in insertion order, an Optional[DecisionNode] is a *)
(* node record or NullNode.  The fluent builder (src/builder.py) is        *)
(* modelled beside it: its own node dict, its root id, and build().        *)
(***************************************************************************)
EXTENDS Naturals, Sequences, FiniteSets, TLC

VARIABLES
    nodes,   \* DecisionTree.nodes: node id -> node record
    order,   \* the keys of DecisionTree.nodes in insertion order
    root,    \* DecisionTree.root: a node record, or NullNode
    cache,   \* DecisionTree._cache: str(context) -> DecisionResult
    call,    \* the last operation called on the tree, with its arguments
    ret,     \* what that operation returned or raised
    calls,   \* how often that operation invoked each action callable
    evals,   \* how often that operation asked an evaluator (custom, default)
    builder, \* the TreeBuilder: its nodes dict and its root_id
    made     \* the number of calls made on the builder

vars == <<nodes, order, root, cache, call, ret, calls, evals, builder, made>>

----------------------------------------------------------------------------
(* Values *)

None == "<None>"

\* Python truthiness of an Optional[str]: None and the empty string are falsy.
Truthy(v) == v # None /\ v # ""

\* enum NodeType (ACTION is a reserved word of TLA+, hence the capitalisation).
Decision == "decision"
Action == "action"
Leaf == "leaf"

NodeType == {Decision, Action, Leaf}

\* The no-node value of an Optional[DecisionNode].
NullNode == [null |-> TRUE]

\* The loop bound of traverse.
max_depth == 100

\* Action callables: the value each returns for a context.
ActionNames == {"f", "g"}

ActionReturn(action, context) ==
    IF action = "f"
        THEN (IF "yes" \in context.items THEN "F-yes" ELSE "F-other")
        ELSE None

DecisionNode(id, type, action, children, default_child, outcome) ==
    [node_id |-> id, node_type |-> type, action |-> action,
     children |-> children, default_child |-> default_child,
     outcome |-> outcome]

\* dict helpers on a children mapping kept as a sequence of <<answer, child id>>.
Keys(children) == [i \in 1..Len(children) |-> children[i][1]]

Values(children) == [i \in 1..Len(children) |-> children[i][2]]

HasKey(children, key) == \E i \in 1..Len(children) : children[i][1] = key

Lookup(children, key) ==
    children[CHOOSE i \in 1..Len(children) : children[i][1] = key][2]

\* DecisionResult() and DecisionResult.add_step.
DecisionResult(path, outcome, reached_leaf, node_count) ==
    [path |-> path, outcome |-> outcome, reached_leaf |-> reached_leaf,
     node_count |-> node_count]

EmptyResult == DecisionResult(<<>>, None, FALSE, 0)

\* The id appended, the count left as it was.
add_step_uncounted(result, node_id, outcome) ==
    [result EXCEPT !.path = Append(@, node_id),
                   !.outcome = IF Truthy(outcome) THEN outcome ELSE @]

add_step(result, node_id, outcome) ==
    [result EXCEPT !.path = Append(@, node_id),
                   !.node_count = @ + 1,
                   !.outcome = IF Truthy(outcome) THEN outcome ELSE @]

\* The leaf test by the declared kind alone.
is_leaf_by_kind(node) == node.node_type = Leaf

\* DecisionNode.is_leaf
is_leaf(node) == node.node_type = Leaf \/ Len(node.children) = 0

\* DecisionNode.get_child
\* An answer that labels no edge takes the first edge.
get_child_first_edge(node, answer) ==
    IF HasKey(node.children, answer)
        THEN Lookup(node.children, answer)
        ELSE IF Len(node.children) > 0
                 THEN node.children[1][2]
                 ELSE node.default_child

get_child(node, answer) ==
    IF HasKey(node.children, answer)
        THEN Lookup(node.children, answer)
        ELSE node.default_child

\* A lookup that answers an unknown id with the root.
get_node_or_root(node_id) ==
    IF node_id \in DOMAIN nodes THEN nodes[node_id] ELSE root

\* DecisionTree.get_node
get_node(node_id) ==
    IF node_id \in DOMAIN nodes THEN nodes[node_id] ELSE NullNode

----------------------------------------------------------------------------
(* Contexts and evaluators passed to traverse *)

\* A context value, by what the engine asks of it: hasGet is
\* hasattr(context, 'get'), items the keys for which context.get(key) is
\* truthy, attrs the names for which hasattr(context, name) and
\* getattr(context, name) is truthy, str the text of str(context).
Context(hasGet, items, attrs, str) ==
    [hasGet |-> hasGet, items |-> items, attrs |-> attrs, str |-> str]

\* Custom evaluators (node, context) -> answer.  "invert" reads both its
\* arguments, "other" answers a label no node has, "none" answers None.
CustomEvaluators == {"invert", "other", "none"}

EvaluatorAnswer(evaluator, node, context) ==
    CASE evaluator = "invert" ->
             IF node.node_id = "a" /\ "yes" \in context.items THEN "no" ELSE "yes"
      [] evaluator = "other" -> "other"
      [] OTHER -> None

\* The index of the last such key: the loop run to its end, no early return.
LastTruthy(keys, truthy) ==
    IF \E i \in 1..Len(keys) : keys[i] \in truthy
        THEN CHOOSE i \in 1..Len(keys) :
                 /\ keys[i] \in truthy
                 /\ \A j \in (i + 1)..Len(keys) : keys[j] \notin truthy
        ELSE 0

\* The index of the first key of keys that is in the set truthy, or 0.
FirstTruthy(keys, truthy) ==
    IF \E i \in 1..Len(keys) : keys[i] \in truthy
        THEN CHOOSE i \in 1..Len(keys) :
                 /\ keys[i] \in truthy
                 /\ \A j \in 1..(i - 1) : keys[j] \notin truthy
        ELSE 0

\* DecisionTree._default_evaluator
default_evaluator(node, context) ==
    LET keys == Keys(node.children)
        byGet == IF context.hasGet THEN FirstTruthy(keys, context.items) ELSE 0
        byAttr == FirstTruthy(keys, context.attrs)
    IN  IF byGet > 0 THEN keys[byGet]
        ELSE IF byAttr > 0 THEN keys[byAttr]
        ELSE IF Len(node.children) > 0
            THEN (IF Truthy(node.default_child) THEN node.default_child ELSE keys[1])
            ELSE None

----------------------------------------------------------------------------
(* DecisionTree.traverse *)

NoCalls == [a \in ActionNames |-> 0]

NoEvals == [custom |-> 0, default |-> 0]

\* The locals of traverse while its loop runs: the node at hand, the depth,
\* the result under construction, the invocations made so far, and whether
\* a break has left the loop.
WalkStart ==
    [current |-> root, depth |-> 0, result |-> EmptyResult,
     calls |-> NoCalls, evals |-> NoEvals, broke |-> FALSE]

\* The off-by-one of the loop condition: depth <= max_depth.
LoopingInclusive(st) == ~st.broke /\ st.current # NullNode /\ st.depth <= max_depth

\* Line 149 (with the breaks of lines 161 and 173): the loop goes on.
Looping(st) == ~st.broke /\ st.current # NullNode /\ st.depth < max_depth

\* The callable's value kept only when it is truthy, as add_step keeps one.
RunActionKeepTruthy(st, context) ==
    IF st.current.node_type = Action /\ st.current.action # None
        THEN [st EXCEPT !.result.outcome =
                            IF Truthy(ActionReturn(st.current.action, context))
                                THEN ActionReturn(st.current.action, context)
                                ELSE @,
                        !.calls[st.current.action] = @ + 1]
        ELSE st

\* Lines 153-156: an Action node with a callable runs it; its value becomes
\* the outcome unconditionally.
RunAction(st, context) ==
    IF st.current.node_type = Action /\ st.current.action # None
        THEN [st EXCEPT !.result.outcome = ActionReturn(st.current.action, context),
                        !.calls[st.current.action] = @ + 1]
        ELSE st

\* The evaluator passed in ignored: the default one answers.
AnswerByDefault(current, context, evaluator) == default_evaluator(current, context)

\* Lines 163-167: the answer at a non-leaf node, and the evaluator asked.
Answer(current, context, evaluator) ==
    IF evaluator # None
        THEN EvaluatorAnswer(evaluator, current, context)
        ELSE default_evaluator(current, context)

CountEval(st, evaluator) ==
    IF evaluator # None
        THEN [st EXCEPT !.evals.custom = @ + 1]
        ELSE [st EXCEPT !.evals.default = @ + 1]

\* Lines 150-175: one pass through the body of the loop.
Body(st, context, evaluator) ==
    LET st1 == [st EXCEPT !.depth = @ + 1,
                          !.result = add_step(@, st.current.node_id, None)]
        st2 == RunAction(st1, context)
        next_node_id == get_child(st.current, Answer(st.current, context, evaluator))
    IN  IF is_leaf(st.current)
            THEN [st2 EXCEPT !.result.reached_leaf = TRUE, !.broke = TRUE]
            ELSE IF next_node_id = None
                THEN [CountEval(st2, evaluator) EXCEPT !.broke = TRUE]
                ELSE [CountEval(st2, evaluator) EXCEPT !.current = get_node(next_node_id)]

\* The while loop, unfolded at most n times (by halves, to keep the
\* evaluation shallow); it ends where Looping ends it.
RECURSIVE Iterate(_, _, _, _)
Iterate(n, st, context, evaluator) ==
    IF ~Looping(st) THEN st
    ELSE IF n = 1 THEN Body(st, context, evaluator)
    ELSE Iterate(n - (n \div 2), Iterate(n \div 2, st, context, evaluator),
                 context, evaluator)

\* One unfolding more than the loop can make: its own condition ends it.
Walk(context, evaluator) == Iterate(max_depth + 1, WalkStart, context, evaluator)

\* traverse(context, evaluator, use_cache) as the pair of what it returns
\* and what it leaves in the cache.
\* The cache never consulted.
CacheHitNever(context, use_cache) == FALSE

CacheHit(context, use_cache) == use_cache /\ context.str \in DOMAIN cache

\* An assignment that leaves the dict with this one item.
StoreAlone(store, key, value) == [k \in {key} |-> value]

Store(store, key, value) ==
    [k \in DOMAIN store \cup {key} |-> IF k = key THEN value ELSE store[k]]

\* Line 138: what traverse returns on a tree without a root.
\* The result of a walk that has not started, no outcome set.
NoRootResultUnset == EmptyResult

NoRootResult == DecisionResult(<<>>, "No root node", FALSE, 0)

Traverse(context, evaluator, use_cache) ==
    /\ call' = [op |-> "traverse", context |-> context, evaluator |-> evaluator,
                use_cache |-> use_cache]
    /\ IF root = NullNode
           THEN /\ ret' = [value |-> NoRootResult, raised |-> None]
                /\ calls' = NoCalls
                /\ evals' = NoEvals
                /\ cache' = cache
           ELSE IF CacheHit(context, use_cache)
           THEN /\ ret' = [value |-> cache[context.str], raised |-> None]
                /\ calls' = NoCalls
                /\ evals' = NoEvals
                /\ cache' = cache
           ELSE LET st == Walk(context, evaluator)
                IN  /\ ret' = [value |-> st.result, raised |-> None]
                    /\ calls' = st.calls
                    /\ evals' = st.evals
                    /\ cache' = IF use_cache
                                    THEN Store(cache, context.str, st.result)
                                    ELSE cache
    /\ UNCHANGED <<nodes, order, root, builder, made>>

----------------------------------------------------------------------------
(* The other operations of DecisionTree *)

EmptyDict == [k \in {} |-> None]

Returned(value) == [value |-> value, raised |-> None]

Raised(error) == [value |-> None, raised |-> error]

\* DecisionTree.__init__ (with _index_node, which only stores the root).
Construct(r) ==
    /\ root = r
    /\ nodes = (IF r # NullNode THEN Store(EmptyDict, r.node_id, r) ELSE EmptyDict)
    /\ order = (IF r # NullNode THEN <<r.node_id>> ELSE <<>>)
    /\ cache = EmptyDict
    /\ call = [op |-> "init", root |-> r]
    /\ ret = Returned("self")
    /\ calls = NoCalls
    /\ evals = NoEvals

\* The key order of a dict after an item assignment: a new key goes last, a
\* key already there keeps its place.
Inserted(keys, key) ==
    IF \E i \in 1..Len(keys) : keys[i] = key THEN keys ELSE Append(keys, key)

\* add_node that drops the stored results, the tree having changed.
AddNodeInvalidating(node) ==
    /\ nodes' = Store(nodes, node.node_id, node)
    /\ order' = Inserted(order, node.node_id)
    /\ cache' = EmptyDict
    /\ call' = [op |-> "add_node", node |-> node]
    /\ ret' = Returned("self")
    /\ calls' = NoCalls
    /\ evals' = NoEvals
    /\ UNCHANGED <<root, builder, made>>

\* DecisionTree.add_node
AddNode(node) ==
    /\ nodes' = Store(nodes, node.node_id, node)
    /\ order' = Inserted(order, node.node_id)
    /\ call' = [op |-> "add_node", node |-> node]
    /\ ret' = Returned("self")
    /\ calls' = NoCalls
    /\ evals' = NoEvals
    /\ UNCHANGED <<root, cache, builder, made>>

\* set_root without its check: the root becomes whatever get_node gave.
SetRootUnchecked(node_id) ==
    /\ call' = [op |-> "set_root", node_id |-> node_id]
    /\ ret' = Returned("self")
    /\ root' = get_node(node_id)
    /\ calls' = NoCalls
    /\ evals' = NoEvals
    /\ UNCHANGED <<nodes, order, cache, builder, made>>

\* DecisionTree.set_root
SetRoot(node_id) ==
    /\ call' = [op |-> "set_root", node_id |-> node_id]
    /\ IF get_node(node_id) = NullNode
           THEN /\ ret' = Raised("ValueError")
                /\ root' = root
           ELSE /\ ret' = Returned("self")
                /\ root' = get_node(node_id)
    /\ calls' = NoCalls
    /\ evals' = NoEvals
    /\ UNCHANGED <<nodes, order, cache, builder, made>>

\* DecisionTree.clear_cache
ClearCache ==
    /\ cache' = EmptyDict
    /\ call' = [op |-> "clear_cache"]
    /\ ret' = Returned(None)
    /\ calls' = NoCalls
    /\ evals' = NoEvals
    /\ UNCHANGED <<nodes, order, root, builder, made>>

\* The nested dfs of get_all_paths (lines 206-216) and its loop over the
\* children.  The recursion has no guard of its own: on a graph with a cycle
\* it ends in Python's RecursionError.  A descent through more nodes than the
\* tree holds has met one node twice, so that is where the model reports the
\* overflow.
RecursionLimit == Cardinality(DOMAIN nodes) + 1

NoPaths == [paths |-> <<>>, overflow |-> FALSE]

RECURSIVE dfs(_, _, _)
RECURSIVE dfsChildren(_, _, _, _)
\* The children taken last to first.
dfsChildrenReversed(child_ids, i, path, depth) ==
    IF i > Len(child_ids)
        THEN NoPaths
        ELSE
            LET child_id == child_ids[i]
                child == get_node(child_id)
                below == IF Truthy(child_id) /\ child # NullNode
                             THEN dfs(child, path, depth)
                             ELSE NoPaths
                rest == dfsChildren(child_ids, i + 1, path, depth)
            IN  [paths |-> rest.paths \o below.paths,
                 overflow |-> below.overflow \/ rest.overflow]

dfs(node, path, depth) ==
    LET here == Append(path, node.node_id)
    IN  IF is_leaf(node)
            THEN [paths |-> <<here>>, overflow |-> FALSE]
            ELSE IF depth >= RecursionLimit
                THEN [paths |-> <<>>, overflow |-> TRUE]
                ELSE dfsChildren(Values(node.children), 1, here, depth + 1)

dfsChildren(child_ids, i, path, depth) ==
    IF i > Len(child_ids)
        THEN NoPaths
        ELSE
            LET child_id == child_ids[i]
                child == get_node(child_id)
                below == IF Truthy(child_id) /\ child # NullNode
                             THEN dfs(child, path, depth)
                             ELSE NoPaths
                rest == dfsChildren(child_ids, i + 1, path, depth)
            IN  [paths |-> below.paths \o rest.paths,
                 overflow |-> below.overflow \/ rest.overflow]

\* DecisionTree.get_all_paths
GetAllPaths ==
    /\ call' = [op |-> "get_all_paths"]
    /\ ret' = IF root = NullNode
                  THEN Returned(<<>>)
                  ELSE LET found == dfs(root, <<>>, 0)
                       IN  IF found.overflow
                               THEN Raised("RecursionError")
                               ELSE Returned(found.paths)
    /\ calls' = NoCalls
    /\ evals' = NoEvals
    /\ UNCHANGED <<nodes, order, root, cache, builder, made>>

----------------------------------------------------------------------------
(* TreeBuilder (src/builder.py) *)

\* TreeBuilder.__init__: no nodes, no root id.  The nodes dict is kept as the
\* sequence of its node records in insertion order, keyed by node_id.
NewBuilder == [nodes |-> <<>>, root_id |-> None]

\* node_id in self.nodes
Has(bnodes, node_id) == \E i \in 1..Len(bnodes) : bnodes[i].node_id = node_id

\* The place of self.nodes[node_id] in the dict.
At(bnodes, node_id) == CHOOSE i \in 1..Len(bnodes) : bnodes[i].node_id = node_id

\* self.nodes[node.node_id] = node: a key already there keeps its place and
\* gets the new node, a new key goes last.
Put(bnodes, node) ==
    IF Has(bnodes, node.node_id)
        THEN [bnodes EXCEPT ![At(bnodes, node.node_id)] = node]
        ELSE Append(bnodes, node)

\* children[answer] = to on a children dict.
SetItem(children, answer, to) ==
    IF HasKey(children, answer)
        THEN [i \in 1..Len(children) |->
                 IF children[i][1] = answer THEN <<answer, to>> ELSE children[i]]
        ELSE Append(children, <<answer, to>>)

\* self.nodes[from_node_id].children[answer] = to_node_id
WithEdge(bnodes, from_node_id, answer, to_node_id) ==
    [bnodes EXCEPT ![At(bnodes, from_node_id)].children =
                       SetItem(@, answer, to_node_id)]

\* What every builder call records: the call, and that no action callable
\* and no evaluator ran.
BuilderCall(op) ==
    /\ call' = op
    /\ made' = made + 1
    /\ calls' = NoCalls
    /\ evals' = NoEvals

\* TreeBuilder.root
Root(node_id) ==
    /\ BuilderCall([op |-> "root", node_id |-> node_id])
    /\ builder' = [nodes |-> Put(builder.nodes,
                                 DecisionNode(node_id, Decision, None, <<>>, None, None)),
                   root_id |-> node_id]
    /\ ret' = Returned("self")
    /\ UNCHANGED <<nodes, order, root, cache>>

\* add_decision with the root checked after the child is stored.
AddDecisionLateCheck(answer, next_node_id) ==
    /\ BuilderCall([op |-> "add_decision", answer |-> answer,
                    next_node_id |-> next_node_id])
    /\ LET child == DecisionNode(next_node_id, Decision, None, <<>>, None, None)
           added == Put(builder.nodes, child)
       IN  IF ~Truthy(builder.root_id)
               THEN /\ ret' = Raised("ValueError")
                    /\ builder' = [builder EXCEPT !.nodes = added]
               ELSE /\ ret' = Returned("self")
                    /\ builder' = [builder EXCEPT !.nodes =
                           WithEdge(added, builder.root_id, answer, next_node_id)]
    /\ UNCHANGED <<nodes, order, root, cache>>

\* TreeBuilder.add_decision
AddDecision(answer, next_node_id) ==
    /\ BuilderCall([op |-> "add_decision", answer |-> answer,
                    next_node_id |-> next_node_id])
    /\ IF ~Truthy(builder.root_id)
           THEN /\ ret' = Raised("ValueError")
                /\ builder' = builder
           ELSE LET child == DecisionNode(next_node_id, Decision, None, <<>>, None, None)
                    added == Put(builder.nodes, child)
                IN  /\ ret' = Returned("self")
                    /\ builder' = [builder EXCEPT !.nodes =
                           WithEdge(added, builder.root_id, answer, next_node_id)]
    /\ UNCHANGED <<nodes, order, root, cache>>

\* The edge drawn from the node that stands last in the dict, the most
\* recently added one, instead of from the root.
EdgeFromLast(bnodes, answer, node_id) ==
    IF Truthy(answer) /\ Truthy(builder.root_id) /\ Len(builder.nodes) > 0
        THEN WithEdge(bnodes, builder.nodes[Len(builder.nodes)].node_id, answer, node_id)
        ELSE bnodes

\* Lines 118-119 and 147-148: the edge from the root, given an answer and a
\* root id that are both truthy.
EdgeFromRoot(bnodes, answer, node_id) ==
    IF Truthy(answer) /\ Truthy(builder.root_id)
        THEN WithEdge(bnodes, builder.root_id, answer, node_id)
        ELSE bnodes

\* TreeBuilder.add_action
AddAction(node_id, action, answer) ==
    /\ BuilderCall([op |-> "add_action", node_id |-> node_id, action |-> action,
                    answer |-> answer])
    /\ LET node == DecisionNode(node_id, Action, action, <<>>, None, None)
       IN  builder' = [builder EXCEPT !.nodes =
                          EdgeFromRoot(Put(builder.nodes, node), answer, node_id)]
    /\ ret' = Returned("self")
    /\ UNCHANGED <<nodes, order, root, cache>>

\* TreeBuilder.add_leaf
AddLeaf(node_id, outcome, answer) ==
    /\ BuilderCall([op |-> "add_leaf", node_id |-> node_id, outcome |-> outcome,
                    answer |-> answer])
    /\ LET node == DecisionNode(node_id, Leaf, None, <<>>, None, outcome)
       IN  builder' = [builder EXCEPT !.nodes =
                          EdgeFromRoot(Put(builder.nodes, node), answer, node_id)]
    /\ ret' = Returned("self")
    /\ UNCHANGED <<nodes, order, root, cache>>

\* connect with the check of set_default: the source alone is looked up.
ConnectSourceChecked(from_node_id, answer, to_node_id) ==
    /\ BuilderCall([op |-> "connect", from_node_id |-> from_node_id,
                    answer |-> answer, to_node_id |-> to_node_id])
    /\ IF ~Has(builder.nodes, from_node_id)
           THEN /\ ret' = Raised("ValueError")
                /\ builder' = builder
           ELSE /\ ret' = Returned("self")
                /\ builder' = [builder EXCEPT !.nodes =
                       WithEdge(@, from_node_id, answer, to_node_id)]
    /\ UNCHANGED <<nodes, order, root, cache>>

\* TreeBuilder.connect
Connect(from_node_id, answer, to_node_id) ==
    /\ BuilderCall([op |-> "connect", from_node_id |-> from_node_id,
                    answer |-> answer, to_node_id |-> to_node_id])
    /\ IF ~Has(builder.nodes, from_node_id) \/ ~Has(builder.nodes, to_node_id)
           THEN /\ ret' = Raised("ValueError")
                /\ builder' = builder
           ELSE /\ ret' = Returned("self")
                /\ builder' = [builder EXCEPT !.nodes =
                       WithEdge(@, from_node_id, answer, to_node_id)]
    /\ UNCHANGED <<nodes, order, root, cache>>

\* TreeBuilder.set_default
SetDefault(from_node_id, to_node_id) ==
    /\ BuilderCall([op |-> "set_default", from_node_id |-> from_node_id,
                    to_node_id |-> to_node_id])
    /\ IF ~Has(builder.nodes, from_node_id)
           THEN /\ ret' = Raised("ValueError")
                /\ builder' = builder
           ELSE /\ ret' = Returned("self")
                /\ builder' = [builder EXCEPT
                       !.nodes[At(builder.nodes, from_node_id)].default_child =
                           to_node_id]
    /\ UNCHANGED <<nodes, order, root, cache>>

\* Lines 205-209: DecisionTree(root=root), then add_node for every node of
\* the builder in the order of its dict.
RECURSIVE AddAll(_, _, _)
AddAll(bnodes, i, tree) ==
    IF i > Len(bnodes)
        THEN tree
        ELSE AddAll(bnodes, i + 1,
                    [nodes |-> Store(tree.nodes, bnodes[i].node_id, bnodes[i]),
                     order |-> Inserted(tree.order, bnodes[i].node_id)])

\* TreeBuilder.build
Build ==
    /\ BuilderCall([op |-> "build"])
    /\ builder' = builder
    /\ IF ~Truthy(builder.root_id)
           THEN /\ ret' = Raised("ValueError")
                /\ UNCHANGED <<nodes, order, root, cache>>
           ELSE LET r == builder.nodes[At(builder.nodes, builder.root_id)]
                    tree == AddAll(builder.nodes, 1,
                                   [nodes |-> Store(EmptyDict, r.node_id, r),
                                    order |-> <<r.node_id>>])
                IN  /\ ret' = Returned("tree")
                    /\ root' = r
                    /\ nodes' = tree.nodes
                    /\ order' = tree.order
                    /\ cache' = EmptyDict

----------------------------------------------------------------------------
(* Inputs *)

\* The node values handed to the constructor and to add_node.  Ids are "a",
\* "b", "c" and the empty string; answers are "yes", "no", "items" and "b"
\* (an answer that is also a node id).
NodePool ==
    { \* id "a"
      DecisionNode("a", Decision, None, <<<<"yes", "b">>, <<"no", "c">>>>, None, None),
      DecisionNode("a", Decision, None, <<<<"no", "c">>, <<"yes", "">>>>, None, None),
      DecisionNode("a", Action, "f", <<<<"yes", "b">>>>, "c", None),
      DecisionNode("a", Decision, None, <<<<"b", "c">>, <<"items", "b">>>>, "b", None),
      DecisionNode("a", Leaf, None, <<<<"yes", "b">>>>, None, "finished"),
      DecisionNode("a", Decision, None, <<>>, "b", None),
      \* id "b"
      DecisionNode("b", Leaf, None, <<>>, None, "finished"),
      DecisionNode("b", Decision, None, <<<<"yes", "a">>>>, None, None),
      DecisionNode("b", Action, "g", <<<<"no", "c">>>>, "", None),
      \* id "c"
      DecisionNode("c", Leaf, None, <<>>, None, "other"),
      DecisionNode("c", Action, None, <<>>, None, None),
      DecisionNode("c", Decision, None, <<<<"no", "">>, <<"items", "b">>>>, None, None),
      \* the empty id
      DecisionNode("", Leaf, None, <<>>, None, "empty") }

\* The part of the pool the caching specification builds its trees from.
CachePool ==
    { n \in NodePool :
        \/ n.node_id = "a" /\ n.node_type = Action
        \/ n.node_id = "b" /\ n.node_type # Decision }

NodeIds == {n.node_id : n \in NodePool}

\* What a dict answers to hasattr: its methods.
DictAttrs == {"get", "items", "keys", "values"}

Strs == {"s1", "s2"}

Contexts ==
    {Context(TRUE, items, DictAttrs, s) : items \in SUBSET {"yes", "no"}, s \in Strs}
    \cup {Context(FALSE, {}, attrs, s) : attrs \in {{}, {"no"}}, s \in Strs}

\* Without the cache the text of str(context) is never read.
WalkContexts == {c \in Contexts : c.str = "s1"}

\* Two contexts that differ and share their text, and one with another text.
CacheContexts ==
    {c \in Contexts : c.hasGet /\ (c.items = {"yes"} \/ (c.items = {} /\ c.str = "s1"))}

Evaluators == {None} \cup CustomEvaluators

\* The arguments of the builder calls: node ids, of which the root may also
\* take the empty one, answers, the optional answer of add_action and
\* add_leaf, one callable and one outcome.
BuilderIds == {"r", "x"}

RootIds == BuilderIds \cup {""}

Answers == {"yes", "no"}

OptionalAnswers == {None, "yes"}

----------------------------------------------------------------------------
(* Specifications *)

\* The tree with its cache, over the small pool.
Init ==
    /\ \E r \in CachePool \cup {NullNode} : Construct(r)
    /\ builder = NewBuilder
    /\ made = 0

Next ==
    \/ \E node \in CachePool : AddNode(node)
    \/ \E node_id \in NodeIds : SetRoot(node_id)
    \/ \E context \in CacheContexts, evaluator \in {None, "invert"},
          use_cache \in BOOLEAN : Traverse(context, evaluator, use_cache)
    \/ ClearCache
    \/ GetAllPaths

Spec == Init /\ [][Next]_vars

\* The largest tree of the walk specification, in nodes.
MaxNodes == 3

\* Every tree the constructor followed by add_node and set_root calls can
\* leave, over the whole pool: nodes holds at most one pool node per id, and
\* the root is unset (and then was never set) or a pool node whose id is a
\* key of nodes (add_node may since have replaced the node under that id).
\* The ids were inserted in the order of IdOrder.
IdOrder == <<"a", "b", "c", "">>

Built(picked, r) ==
    /\ nodes = [id \in {i \in NodeIds : picked[i] # NullNode} |-> picked[id]]
    /\ order = SelectSeq(IdOrder, LAMBDA id : picked[id] # NullNode)
    /\ builder = NewBuilder
    /\ made = 0
    /\ root = r
    /\ cache = EmptyDict
    /\ call = [op |-> "built"]
    /\ ret = Returned("self")
    /\ calls = NoCalls
    /\ evals = NoEvals

InitWalk ==
    \E picked \in [NodeIds -> NodePool \cup {NullNode}] :
        /\ \A id \in NodeIds : picked[id] # NullNode => picked[id].node_id = id
        /\ Cardinality({id \in NodeIds : picked[id] # NullNode}) <= MaxNodes
        /\ \E r \in NodePool \cup {NullNode} :
               /\ r # NullNode => picked[r.node_id] # NullNode
               /\ Built(picked, r)

\* One query on the tree as built: traverse without the cache and
\* get_all_paths change nothing a later query reads.
NextWalk ==
    /\ call.op = "built"
    /\ \/ \E context \in WalkContexts, evaluator \in Evaluators :
              Traverse(context, evaluator, FALSE)
       \/ GetAllPaths

SpecWalk == InitWalk /\ [][NextWalk]_vars

\* The most calls made on one builder before build().
MaxCalls == 3

\* A fresh builder and no tree yet.
InitBuilder ==
    /\ builder = NewBuilder
    /\ made = 0
    /\ nodes = EmptyDict
    /\ order = <<>>
    /\ root = NullNode
    /\ cache = EmptyDict
    /\ call = [op |-> "TreeBuilder"]
    /\ ret = Returned("self")
    /\ calls = NoCalls
    /\ evals = NoEvals

\* build() has returned the tree.
TreeBuilt == call.op = "build" /\ ret.raised = None

\* One more call may be made on the builder.
CanCall == ~TreeBuilt /\ made < MaxCalls

\* Calls on the builder, then build(): up to the build() that returns the
\* tree.
NextBuilder ==
    \/ \E node_id \in RootIds : CanCall /\ Root(node_id)
    \/ \E answer \in Answers, next_node_id \in BuilderIds :
           CanCall /\ AddDecision(answer, next_node_id)
    \/ \E node_id \in BuilderIds, answer \in OptionalAnswers :
           CanCall /\ AddAction(node_id, "f", answer)
    \/ \E node_id \in BuilderIds, answer \in OptionalAnswers :
           CanCall /\ AddLeaf(node_id, "finished", answer)
    \/ \E from_node_id \in BuilderIds, answer \in Answers, to_node_id \in BuilderIds :
           CanCall /\ Connect(from_node_id, answer, to_node_id)
    \/ \E from_node_id \in BuilderIds, to_node_id \in BuilderIds :
           CanCall /\ SetDefault(from_node_id, to_node_id)
    \/ ~TreeBuilt /\ made <= MaxCalls /\ Build

SpecBuilder == InitBuilder /\ [][NextBuilder]_vars

----------------------------------------------------------------------------
(* What the properties below read off a state *)

\* The last operation was a traverse that walked the tree (under SpecWalk,
\* every traverse of a tree with a root).
FreshTraverse == call.op = "traverse" /\ ~call.use_cache /\ root # NullNode

Result == ret.value

\* The node the walk was at when it appended the i-th id of the path: the
\* root object first, then what get_node gave.
VisitedNode(i) == IF i = 1 THEN root ELSE get_node(Result.path[i])

LastVisited == VisitedNode(Len(Result.path))

\* The leaf condition of the data model, spelled out.
LeafCondition(node) == node.node_type = "leaf" \/ node.children = <<>>

RunsCallable(node) == node.node_type = "action" /\ node.action # None

\* The node objects of the tree: the root and what the mapping holds.
NodeObjects == {root} \cup {nodes[id] : id \in DOMAIN nodes}

\* The next node id the data model resolves at node for the evaluator and
\* context of the call: the edge of the answer if the answer labels an edge,
\* else the default child.
ResolvedNext(node) ==
    LET answer == Answer(node, call.context, call.evaluator)
        labelled == {k \in 1..Len(node.children) : node.children[k][1] = answer}
    IN  IF labelled # {}
            THEN node.children[CHOOSE k \in labelled : TRUE][2]
            ELSE node.default_child

\* Every node the walk can come to is a non-leaf whose next node exists:
\* the walk stays on a cycle.
StaysOnCycle ==
    \E S \in SUBSET NodeObjects :
        /\ root \in S
        /\ \A n \in S :
               /\ ~LeafCondition(n)
               /\ ResolvedNext(n) \in DOMAIN nodes
               /\ nodes[ResolvedNext(n)] \in S

----------------------------------------------------------------------------
(* C1 *)

\* C1: when a traverse ends at a Leaf node whose metadata carries an outcome
\* and no action callable ran on the way, the outcome of the returned result
\* is that leaf's outcome.  Stated on the scenario of the claim: a Decision
\* root with an edge to such a Leaf, a dict context in which that edge's
\* answer is truthy, the default evaluator; the call returns the path
\* <<root, leaf>>, the leaf's outcome and reached_leaf = TRUE.
C1_LeafOutcomeReturned ==
    \A k \in 1..(IF call.op = "traverse" /\ root # NullNode
                    THEN Len(root.children) ELSE 0) :
        LET answer == root.children[k][1]
            leaf == get_node(root.children[k][2])
        IN  (/\ FreshTraverse
             /\ root = get_node(root.node_id)
             /\ root.node_type = "decision"
             /\ call.evaluator = None
             /\ call.context.hasGet
             /\ call.context.items = {answer}
             /\ leaf # NullNode
             /\ leaf.node_type = "leaf"
             /\ leaf.outcome # None)
            => /\ Result.path = <<root.node_id, leaf.node_id>>
               /\ Result.reached_leaf
               /\ Result.outcome = leaf.outcome

----------------------------------------------------------------------------
(* C2 *)

\* C2: on a cyclic tree on which every node reached is a non-leaf whose
\* resolved next node exists, traverse returns after exactly 100 steps:
\* node_count = 100, a path of 100 ids, reached_leaf = FALSE.
C2_CycleStopsAt100 ==
    (FreshTraverse /\ StaysOnCycle)
    => /\ ret.raised = None
       /\ Result.node_count = 100
       /\ Len(Result.path) = 100
       /\ ~Result.reached_leaf

\* A walk round the two-node cycle root -> child -> root that was cut off.
C2_Witness ==
    /\ FreshTraverse
    /\ StaysOnCycle
    /\ Result.node_count = 100
    /\ Result.path[2] # Result.path[1]
    /\ Result.path[3] = Result.path[1]
    /\ Result.path[100] = Result.path[2]
    /\ ~Result.reached_leaf

----------------------------------------------------------------------------
(* C3 *)

\* C3: after a traverse with use_cache on a tree with a root, a second
\* traverse with use_cache whose context has the same string form returns
\* the stored result of the first and invokes no action callable and no
\* evaluator.
C3_SecondCallReturnsStored ==
    [][(/\ call.op = "traverse"
        /\ call.use_cache
        /\ root # NullNode
        /\ call'.op = "traverse"
        /\ call'.use_cache
        /\ call'.context.str = call.context.str)
       => /\ ret'.value = ret.value
          /\ ret'.value = cache[call.context.str]
          /\ calls' = NoCalls
          /\ evals' = NoEvals
          /\ cache' = cache]_vars

\* A cached call with the empty dict that was answered with the result the
\* action gave for {"yes": True}: a walk would have run the action again and
\* returned "F-other".
C3_Witness ==
    /\ call.op = "traverse"
    /\ call.use_cache
    /\ root # NullNode
    /\ call.context.items = {}
    /\ Result.outcome = "F-yes"
    /\ Result.path # <<>>
    /\ calls = NoCalls
    /\ evals = NoEvals

----------------------------------------------------------------------------
(* C4 *)

\* C4: set_root(id) with an id that is no key of the node mapping fails with
\* the not-found error (ValueError) and leaves the root, the node mapping and
\* the cache as they were; with an id that is a key it rebinds the root to
\* the node stored under that id.
C4_SetRoot ==
    [][call'.op = "set_root"
       => IF call'.node_id \in DOMAIN nodes
              THEN /\ ret'.raised = None
                   /\ root' = nodes[call'.node_id]
                   /\ nodes' = nodes
                   /\ cache' = cache
              ELSE /\ ret'.raised = "ValueError"
                   /\ root' = root
                   /\ nodes' = nodes
                   /\ cache' = cache]_vars

\* A failed set_root on a tree that has a root, nodes and a cached result.
C4_Witness ==
    /\ call.op = "set_root"
    /\ call.node_id \notin DOMAIN nodes
    /\ ret.raised = "ValueError"
    /\ root # NullNode
    /\ DOMAIN cache # {}

----------------------------------------------------------------------------
(* C5 *)

Occurrences(id) == Cardinality({i \in 1..Len(Result.path) : Result.path[i] = id})

\* The steps of the walk at which the callable was due: the visits of Action
\* nodes that carry it.
VisitsRunning(action) ==
    {i \in 1..Len(Result.path) :
        RunsCallable(VisitedNode(i)) /\ VisitedNode(i).action = action}

AllRuns == UNION {VisitsRunning(action) : action \in ActionNames}

\* The outcome the walk ends with when each visit of an Action node with a
\* callable sets it: the value of the last one, None if there was none.
LastRunOutcome ==
    IF AllRuns = {}
        THEN None
        ELSE LET last == CHOOSE i \in AllRuns : \A j \in AllRuns : j <= i
             IN  ActionReturn(VisitedNode(last).action, call.context)

\* C5 as claimed: each visit of an Action node with a callable invokes the
\* callable once, so its invocations number the occurrences of the node's id
\* in the returned path; the value of the last invocation is the outcome.
C5_OncePerIdOccurrence ==
    FreshTraverse
    => /\ \A i \in 1..Len(Result.path) :
              RunsCallable(VisitedNode(i))
              => calls[VisitedNode(i).action] = Occurrences(Result.path[i])
       /\ Result.outcome = LastRunOutcome

\* C5 counted by visits: the invocations of a callable number the visits of the
\* Action nodes that carry it (the positions of the path at which such a
\* node was the one visited), and the value of the last invocation of the
\* walk is the outcome.
C5_OncePerVisit ==
    FreshTraverse
    => /\ \A action \in ActionNames :
              calls[action] = Cardinality(VisitsRunning(action))
       /\ Result.outcome = LastRunOutcome

\* A walk that ran "f" at the root and then "g", whose None is the outcome.
C5_Witness ==
    /\ FreshTraverse
    /\ calls["f"] = 1
    /\ calls["g"] = 1
    /\ Len(Result.path) >= 2
    /\ RunsCallable(VisitedNode(1))
    /\ RunsCallable(VisitedNode(2))
    /\ Result.outcome = None

----------------------------------------------------------------------------
(* C6 *)

EvaluatorCalls == evals.custom + evals.default

\* C6: the walk stops with reached_leaf = TRUE at the first node it visits
\* that satisfies the leaf condition (kind Leaf, whatever its edges, or no
\* edges, whatever its kind) and asks no evaluator there: such a node is the
\* last of the path, an evaluator was asked once at every other visited node
\* and never at the leaf, and a root that satisfies the condition gives
\* path = <<root id>>, reached_leaf = TRUE, node_count = 1.
C6_StopsAtFirstLeaf ==
    FreshTraverse
    => /\ \A i \in 1..Len(Result.path) :
              LeafCondition(VisitedNode(i))
              => (i = Len(Result.path) /\ Result.reached_leaf)
       /\ Result.reached_leaf => LeafCondition(LastVisited)
       /\ EvaluatorCalls =
              Len(Result.path) - (IF Result.reached_leaf THEN 1 ELSE 0)
       /\ LeafCondition(root)
              => /\ Result.path = <<root.node_id>>
                 /\ Result.reached_leaf
                 /\ Result.node_count = 1

\* A walk that stopped at its second node, a Leaf that has an edge, after
\* asking an evaluator at the root only.
C6_Witness ==
    /\ FreshTraverse
    /\ Len(Result.path) = 2
    /\ LastVisited.node_type = "leaf"
    /\ LastVisited.children # <<>>
    /\ Result.reached_leaf
    /\ EvaluatorCalls = 1

----------------------------------------------------------------------------
(* C7 *)

\* The edges of node whose answer looks up to a truthy value in the context
\* of the call, by position.
TruthyEdges(node) ==
    {k \in 1..Len(node.children) : node.children[k][1] \in call.context.items}

\* C7: with the default evaluator and a map-like context, the walk leaves a
\* non-leaf node by the first of its edges, in insertion order, whose answer
\* looks up to a truthy value in the context, whatever the later edges look
\* up to: the next id of the path is that edge's child (and when the path
\* ends at the node, that child is no node of the tree, or the walk was cut
\* off at 100 steps).
C7_FirstTruthyEdgeWins ==
    (FreshTraverse /\ call.evaluator = None /\ call.context.hasGet)
    => \A i \in 1..Len(Result.path) :
           LET node == VisitedNode(i)
               first == CHOOSE k \in TruthyEdges(node) :
                            \A j \in TruthyEdges(node) : k <= j
               child == node.children[first][2]
           IN  (~LeafCondition(node) /\ TruthyEdges(node) # {})
               => IF i < Len(Result.path)
                      THEN Result.path[i + 1] = child
                      ELSE child \notin DOMAIN nodes \/ i = 100

\* Edges {"yes": "b", "no": "c"} at the root, both answers truthy in the
\* context: the walk went to "b".
C7_Witness ==
    /\ FreshTraverse
    /\ call.evaluator = None
    /\ call.context.hasGet
    /\ call.context.items = {"yes", "no"}
    /\ root.children = <<<<"yes", "b">>, <<"no", "c">>>>
    /\ Len(Result.path) >= 2
    /\ Result.path[2] = "b"

----------------------------------------------------------------------------
(* C8 *)

\* The nodes one edge away from node on a walk: a node satisfying the leaf
\* condition is left by no edge.
Successors(node) ==
    IF LeafCondition(node)
        THEN {}
        ELSE {nodes[node.children[k][2]] :
                k \in {j \in 1..Len(node.children) :
                          node.children[j][2] \in DOMAIN nodes}}

RECURSIVE ReachableFrom(_)
ReachableFrom(S) ==
    LET more == S \cup UNION {Successors(n) : n \in S}
    IN  IF more = S THEN S ELSE ReachableFrom(more)

\* The graph is acyclic from the root: no node the root reaches is reached
\* again from its own successors.
AcyclicFromRoot ==
    \A n \in ReachableFrom({root}) : n \notin ReachableFrom(Successors(n))

\* Every route from node to a node satisfying the leaf condition, as the
\* sequence of ids on it, depth first along the edges in insertion order.
\* An edge to an id that is no key of the mapping starts no route; with
\* skipEmpty, neither does an edge whose child id is the empty string.
RECURSIVE RoutesFrom(_, _)
RECURSIVE RoutesVia(_, _, _)
RoutesFrom(node, skipEmpty) ==
    IF LeafCondition(node)
        THEN <<<<node.node_id>>>>
        ELSE RoutesVia(node, 1, skipEmpty)

RoutesVia(node, k, skipEmpty) ==
    IF k > Len(node.children)
        THEN <<>>
        ELSE LET child_id == node.children[k][2]
                 followed == /\ child_id \in DOMAIN nodes
                             /\ ~(skipEmpty /\ child_id = "")
                 below == IF followed
                              THEN RoutesFrom(nodes[child_id], skipEmpty)
                              ELSE <<>>
             IN  [i \in 1..Len(below) |-> <<node.node_id>> \o below[i]]
                 \o RoutesVia(node, k + 1, skipEmpty)

\* Each returned path starts with the root id and ends with the id of a
\* node satisfying the leaf condition.
PathsRunRootToLeaf ==
    \A i \in 1..Len(ret.value) :
        LET path == ret.value[i]
        IN  /\ path[1] = root.node_id
            /\ LeafCondition(IF Len(path) = 1 THEN root
                             ELSE get_node(path[Len(path)]))

\* C8 as claimed: on a graph that is finite and acyclic from the root,
\* get_all_paths returns, depth first along each node's edges in insertion
\* order, exactly one path per route from the root to a node satisfying the
\* leaf condition, each starting with the root id and ending with the id of
\* such a node.
C8_OnePathPerRoute ==
    (call.op = "get_all_paths" /\ root # NullNode /\ AcyclicFromRoot)
    => /\ ret.raised = None
       /\ ret.value = RoutesFrom(root, FALSE)
       /\ PathsRunRootToLeaf

\* C8 away from the empty id: the same, over the routes that take no edge whose child id
\* is the empty string.
C8_OnePathPerNonEmptyRoute ==
    (call.op = "get_all_paths" /\ root # NullNode /\ AcyclicFromRoot)
    => /\ ret.raised = None
       /\ ret.value = RoutesFrom(root, TRUE)
       /\ PathsRunRootToLeaf

\* Two branches from the root, each to a leaf: two paths, one per leaf.
C8_Witness ==
    /\ call.op = "get_all_paths"
    /\ root # NullNode
    /\ AcyclicFromRoot
    /\ root.children = <<<<"yes", "b">>, <<"no", "c">>>>
    /\ ret.value = <<<<"a", "b">>, <<"a", "c">>>>
    /\ LeafCondition(get_node("b"))
    /\ LeafCondition(get_node("c"))

-----------------------------------------------------------------------------
(* C9 *)

\* The walk came to the node at position i of the path and found no next
\* node there: the node is no leaf and its resolved next id is absent or no
\* key of the mapping.
NoNextAt(i) ==
    /\ ~LeafCondition(VisitedNode(i))
    /\ ResolvedNext(VisitedNode(i)) \notin DOMAIN nodes

\* C9: traverse does not raise for the shape of the graph.  When the
\* resolved next node id is no key of the mapping (dangling edge, dangling
\* default_child) or is absent (the answer is absent or labels no edge and
\* there is no default), the call returns with reached_leaf = FALSE and a
\* path that ends with the last existing node visited: every id on the path
\* is a visited node's, and the missing id is not appended.
C9_MissingNextEndsWalk ==
    FreshTraverse
    => /\ ret.raised = None
       /\ Len(Result.path) >= 1
       /\ Result.path[1] = root.node_id
       /\ \A i \in 2..Len(Result.path) : Result.path[i] \in DOMAIN nodes
       /\ \A i \in 1..Len(Result.path) :
              NoNextAt(i)
              => /\ i = Len(Result.path)
                 /\ Result.reached_leaf = FALSE
                 /\ Result.node_count = Len(Result.path)

\* A walk of two nodes or more ended on an edge or default to an id that is
\* no key of the mapping.
C9_Witness ==
    /\ FreshTraverse
    /\ ret.raised = None
    /\ Len(Result.path) >= 2
    /\ NoNextAt(Len(Result.path))
    /\ ResolvedNext(LastVisited) # None
    /\ Result.reached_leaf = FALSE

-----------------------------------------------------------------------------
(* C10 *)

\* C10: on a tree with no root, traverse returns a result with outcome
\* "No root node", an empty path, node_count = 0 and reached_leaf = FALSE,
\* whatever the context, the evaluator and use_cache; the cache is neither
\* read (no stored result is returned, none exists) nor written, and no
\* action callable or evaluator runs.
C10_NoRoot ==
    [][(call'.op = "traverse" /\ root = NullNode)
        => /\ ret'.raised = None
           /\ ret'.value = [path |-> <<>>, outcome |-> "No root node",
                            reached_leaf |-> FALSE, node_count |-> 0]
           /\ cache' = cache
           /\ call'.context.str \notin DOMAIN cache'
           /\ calls' = NoCalls
           /\ evals' = NoEvals]_vars

\* A cached traverse of a tree that holds nodes but has no root returned the
\* "No root node" result and left the cache empty.
C10_Witness ==
    /\ call.op = "traverse"
    /\ call.use_cache
    /\ root = NullNode
    /\ DOMAIN nodes # {}
    /\ ret.value.outcome = "No root node"
    /\ DOMAIN cache = {}

-----------------------------------------------------------------------------
(* What the builder properties read off a state *)

\* The ids of the builder's nodes, in the order of its dict.
BuilderKeys(b) == [i \in 1..Len(b.nodes) |-> b.nodes[i].node_id]

\* node_id names a node already added to the builder b.
Added(b, node_id) == \E i \in 1..Len(b.nodes) : b.nodes[i].node_id = node_id

\* The child id of node's edge for label, or None if it has no such edge.
EdgeOf(node, label) ==
    IF \E k \in 1..Len(node.children) : node.children[k][1] = label
        THEN node.children[CHOOSE k \in 1..Len(node.children) :
                               node.children[k][1] = label][2]
        ELSE None

\* The labels of node's edges, in insertion order.
Labels(node) == [k \in 1..Len(node.children) |-> node.children[k][1]]

\* The builder's tree under construction is untouched: no tree exists before
\* build().
NoTreeChange == <<nodes, order, root, cache>>' = <<nodes, order, root, cache>>

-----------------------------------------------------------------------------
(* C11 *)

\* The node at place i of the builder has, after the step, the edge
\* answer -> to and otherwise what it had: its other edges with their order,
\* its kind, callable, default and outcome.
OnlyEdgeSet(i, answer, to) ==
    LET before == builder.nodes[i]
        after == builder'.nodes[i]
    IN  /\ [after EXCEPT !.children = <<>>] = [before EXCEPT !.children = <<>>]
        /\ EdgeOf(after, answer) = to
        /\ \A k \in 1..Len(before.children) : after.children[k][1] = before.children[k][1]
        /\ \A k \in 1..Len(before.children) :
               before.children[k][1] # answer => after.children[k] = before.children[k]
        /\ Len(after.children) =
               Len(before.children) + (IF EdgeOf(before, answer) = None THEN 1 ELSE 0)

\* C11: connect(from, answer, to) raises the not-found error when from or to
\* is no node of the builder, and then leaves the builder (every node's
\* edges, the node set, the root id) unchanged; when both are nodes of the
\* builder it returns, sets from's edge for answer to to and changes nothing
\* else.
C11_Connect ==
    [][call'.op = "connect"
       => /\ NoTreeChange
          /\ IF Added(builder, call'.from_node_id) /\ Added(builder, call'.to_node_id)
                 THEN /\ ret' = [value |-> "self", raised |-> None]
                      /\ builder'.root_id = builder.root_id
                      /\ BuilderKeys(builder') = BuilderKeys(builder)
                      /\ \A i \in 1..Len(builder.nodes) :
                             IF builder.nodes[i].node_id = call'.from_node_id
                                 THEN OnlyEdgeSet(i, call'.answer, call'.to_node_id)
                                 ELSE builder'.nodes[i] = builder.nodes[i]
                 ELSE /\ ret'.raised = "ValueError"
                      /\ builder' = builder]_vars

\* connect returned on a source that already had an edge for another answer:
\* the source now has both.
C11_Witness ==
    /\ call.op = "connect"
    /\ ret.raised = None
    /\ call.from_node_id # call.to_node_id
    /\ \E i \in 1..Len(builder.nodes) :
           /\ builder.nodes[i].node_id = call.from_node_id
           /\ EdgeOf(builder.nodes[i], call.answer) = call.to_node_id
           /\ Len(builder.nodes[i].children) = 2

-----------------------------------------------------------------------------
(* C12 *)

\* C12: before root() has been called (the builder's root id is still
\* unset), add_decision and build raise the precondition error and leave the
\* builder's nodes and root id unchanged; no tree is made.
C12_RootFirst ==
    [][(call'.op \in {"add_decision", "build"} /\ builder.root_id = "<None>")
       => /\ ret' = [value |-> "<None>", raised |-> "ValueError"]
          /\ builder' = builder
          /\ NoTreeChange]_vars

\* add_decision raised on a builder that holds a node and has no root yet.
C12_Witness ==
    /\ call.op = "add_decision"
    /\ ret.raised = "ValueError"
    /\ builder.root_id = "<None>"
    /\ Len(builder.nodes) > 0

-----------------------------------------------------------------------------
(* C13 *)

\* The visits at which a callable ran and returned a non-empty value.
NonEmptyRuns ==
    {i \in AllRuns : Truthy(ActionReturn(VisitedNode(i).action, call.context))}

\* C13: the outcome of the returned result is the last non-empty value set
\* by a step of the traversal: when an Action node on the path returns a
\* non-empty value and a later one returns an empty value, the outcome is
\* still the earlier value.
C13_LastNonEmptyOutcome ==
    FreshTraverse
    => Result.outcome =
           IF NonEmptyRuns = {}
               THEN None
               ELSE LET last == CHOOSE i \in NonEmptyRuns : \A j \in NonEmptyRuns : j <= i
                    IN  ActionReturn(VisitedNode(last).action, call.context)

-----------------------------------------------------------------------------
(* C14 *)

\* No edge label of node is truthy in the context of the call, by key or by
\* attribute.
NoTruthyLabel(node) ==
    \A k \in 1..Len(node.children) :
        /\ node.children[k][1] \notin call.context.items
        /\ node.children[k][1] \notin call.context.attrs

\* Where the fallback takes the walk from node: the default child if one is
\* set, else the child of the first edge.
FallbackChild(node) ==
    IF node.default_child # "<None>"
        THEN node.default_child
        ELSE node.children[1][2]

\* C14: with the default evaluator, at a non-leaf node none of whose edge
\* labels is truthy in the context, the walk moves to the node's
\* default_child if one is set and otherwise to the child of the first edge,
\* also when the default_child id equals one of the node's edge labels.
\* (Nodes whose default_child is the empty string are left out: whether that
\* counts as set is not what the claim is about; the root is the node
\* registered under its id.)
C14_FallbackChild ==
    (FreshTraverse /\ call.evaluator = None /\ root = get_node(root.node_id))
    => \A i \in 1..Len(Result.path) :
           LET node == VisitedNode(i)
           IN  (~LeafCondition(node) /\ NoTruthyLabel(node) /\ node.default_child # "")
               => IF i < Len(Result.path)
                      THEN Result.path[i + 1] = FallbackChild(node)
                      ELSE FallbackChild(node) \notin DOMAIN nodes \/ i = 100

-----------------------------------------------------------------------------
(* C15 *)

\* C15: with the default evaluator and a map-like context in which no edge
\* label of a non-leaf node looks up to a truthy value, the walk takes the
\* fallback (default_child if set, else the child of the first edge) even if
\* the context object has a truthy attribute named like one of the labels:
\* attributes are consulted only for contexts without key lookup.  (Read on
\* the nodes whose default_child is no edge label and not the empty string,
\* where the fallback child is not in question.)
C15_MapContextSkipsAttributes ==
    (FreshTraverse /\ call.evaluator = None /\ call.context.hasGet
        /\ root = get_node(root.node_id))
    => \A i \in 1..Len(Result.path) :
           LET node == VisitedNode(i)
           IN  (/\ ~LeafCondition(node)
                /\ TruthyEdges(node) = {}
                /\ node.default_child # ""
                /\ EdgeOf(node, node.default_child) = None)
               => IF i < Len(Result.path)
                      THEN Result.path[i + 1] = FallbackChild(node)
                      ELSE FallbackChild(node) \notin DOMAIN nodes \/ i = 100

-----------------------------------------------------------------------------
(* C16 *)

\* The next node id at node for the answer: the edge labelled with the
\* answer if there is one, else the default child.
NextFor(node, answer) ==
    IF \E k \in 1..Len(node.children) : node.children[k][1] = answer
        THEN EdgeOf(node, answer)
        ELSE node.default_child

\* C16: when a custom evaluator is supplied, it and never the default
\* evaluator is called, once at every visited non-leaf node, with that node
\* and the context; the next node id is the node's edge for its answer if
\* the answer is an edge label, else the node's default_child; if there is
\* neither the walk stops at the node with reached_leaf = FALSE.
C16_CustomEvaluator ==
    (FreshTraverse /\ call.evaluator # None)
    => /\ evals.default = 0
       /\ evals.custom = Cardinality({i \in 1..Len(Result.path) :
                                         ~LeafCondition(VisitedNode(i))})
       /\ \A i \in 1..Len(Result.path) :
              LET node == VisitedNode(i)
                  next == NextFor(node, EvaluatorAnswer(call.evaluator, node,
                                                        call.context))
              IN  ~LeafCondition(node)
                  => IF next = "<None>"
                         THEN i = Len(Result.path) /\ ~Result.reached_leaf
                         ELSE IF i < Len(Result.path)
                                  THEN Result.path[i + 1] = next
                                  ELSE next \notin DOMAIN nodes \/ i = 100

\* The evaluator "invert" answered "no" at the root where the context makes
\* "yes" truthy: the walk took the edge "no".
C16_Witness ==
    /\ FreshTraverse
    /\ call.evaluator = "invert"
    /\ call.context.items = {"yes"}
    /\ root.children = <<<<"yes", "b">>, <<"no", "c">>>>
    /\ Len(Result.path) >= 2
    /\ Result.path[2] = "c"
    /\ evals.custom >= 1
    /\ evals.default = 0

-----------------------------------------------------------------------------
(* C17 *)

\* The step is a traverse that walks the tree as it is and returns what the
\* walk gives.
FreshWalkStep ==
    LET st == Walk(call'.context, call'.evaluator)
    IN  /\ ret'.value = st.result
        /\ calls' = st.calls
        /\ evals' = st.evals

\* C17: a result stored by a traverse with use_cache stays in the cache
\* through every call but clear_cache (add_node, set_root, traverse with any
\* evaluator, get_all_paths), and every traverse with use_cache whose context
\* has the string form it is stored under returns it verbatim, without a
\* walk; clear_cache empties the cache, so the next traverse with use_cache
\* walks the current tree and stores what it finds; a traverse without
\* use_cache always walks and leaves the cache alone.
C17_StoredUntilCleared ==
    [][/\ call'.op # "clear_cache"
          => \A key \in DOMAIN cache :
                 key \in DOMAIN cache' /\ cache'[key] = cache[key]
       /\ call'.op = "clear_cache" => DOMAIN cache' = {}
       /\ (call'.op = "traverse" /\ root # NullNode)
          => IF call'.use_cache /\ call'.context.str \in DOMAIN cache
                 THEN /\ ret'.value = cache[call'.context.str]
                      /\ calls' = NoCalls
                      /\ evals' = NoEvals
                      /\ cache' = cache
                 ELSE /\ FreshWalkStep
                      /\ IF call'.use_cache
                             THEN /\ DOMAIN cache' = DOMAIN cache \cup {call'.context.str}
                                  /\ cache'[call'.context.str] = ret'.value
                             ELSE cache' = cache]_vars

\* A traverse with use_cache was answered from the cache with a result that
\* a walk of the tree as it now is, with the evaluator now passed, would not
\* give: the tree or the evaluator has changed since it was stored.
C17_Witness ==
    /\ call.op = "traverse"
    /\ call.use_cache
    /\ root # NullNode
    /\ calls = NoCalls
    /\ evals = NoEvals
    /\ call.context.str \in DOMAIN cache
    /\ Result = cache[call.context.str]
    /\ call.evaluator = "invert"
    /\ Result # Walk(call.context, call.evaluator).result
    /\ Cardinality(DOMAIN nodes) = 2

-----------------------------------------------------------------------------
(* C18 *)

\* C18: traverse and get_all_paths only read the tree: the node mapping
\* (its keys, their order, and every node with its kind, edges,
\* default_child and metadata) and the root are the same after the call;
\* get_all_paths and traverse without use_cache leave the cache as it was,
\* and traverse with use_cache changes at most the entry under the string
\* form of its context.
C18_QueriesOnlyRead ==
    [][call'.op \in {"traverse", "get_all_paths"}
       => /\ nodes' = nodes
          /\ order' = order
          /\ root' = root
          /\ IF call'.op = "traverse" /\ call'.use_cache
                 THEN \A key \in (DOMAIN cache \cup DOMAIN cache') \ {call'.context.str} :
                          /\ key \in DOMAIN cache
                          /\ key \in DOMAIN cache'
                          /\ cache'[key] = cache[key]
                 ELSE cache' = cache]_vars

\* A traverse with use_cache walked a tree of two nodes, ran an action and
\* stored its result beside the entry the cache already held.
C18_Witness ==
    /\ call.op = "traverse"
    /\ call.use_cache
    /\ calls # NoCalls
    /\ Cardinality(DOMAIN nodes) = 2
    /\ Cardinality(DOMAIN cache) = 2
    /\ cache[call.context.str] = Result

-----------------------------------------------------------------------------
(* C19 *)

\* C19: set_default(from, to) raises the not-found error whenever from or to
\* is no node of the builder, and then leaves the builder unchanged.
C19_SetDefaultChecksBoth ==
    [][(/\ call'.op = "set_default"
        /\ ~(Added(builder, call'.from_node_id) /\ Added(builder, call'.to_node_id)))
       => /\ ret'.raised = "ValueError"
          /\ builder' = builder]_vars

-----------------------------------------------------------------------------
(* C20 *)

\* The step is a call of add_decision, add_action or add_leaf that returned.
AddStep ==
    /\ call'.op \in {"add_decision", "add_action", "add_leaf"}
    /\ ret'.raised = "<None>"

\* The id such a call adds a node under.
AddedId == IF call'.op = "add_decision" THEN call'.next_node_id ELSE call'.node_id

\* Such a call draws an edge: add_decision always, add_action and add_leaf
\* when given an answer while the builder has a root.
DrawsEdge ==
    \/ call'.op = "add_decision"
    \/ call'.answer \notin {"<None>", ""} /\ builder.root_id \notin {"<None>", ""}

\* The step is a build() that returned the tree.
BuildStep == call'.op = "build" /\ ret'.raised = "<None>"

\* The tree holds the builder's nodes under their ids, and its root is the
\* node stored under the builder's root id.
TreeHoldsBuilderNodes ==
    /\ DOMAIN nodes' = {builder.nodes[i].node_id : i \in 1..Len(builder.nodes)}
    /\ \A i \in 1..Len(builder.nodes) :
           nodes'[builder.nodes[i].node_id] = builder.nodes[i]
    /\ builder.root_id \in DOMAIN nodes'
    /\ root' = nodes'[builder.root_id]

\* Every edge the call has drawn or changed leaves the root: no node but the
\* root has an edge it did not have before.
EdgesLeaveRoot ==
    \A i \in 1..Len(builder'.nodes) :
        builder'.nodes[i].node_id # builder.root_id
        => \A k \in 1..Len(builder'.nodes[i].children) :
               /\ i <= Len(builder.nodes)
               /\ k <= Len(builder.nodes[i].children)
               /\ builder.nodes[i].children[k] = builder'.nodes[i].children[k]

\* C20 as claimed: the built tree's mapping holds exactly the builder's
\* nodes, same ids in the same insertion order, and its root is the node
\* stored under the builder's root id; every edge drawn by add_decision, or
\* by add_action/add_leaf given an answer, leaves the current root, and such
\* a call removes or resets no edge of a node added earlier.
C20_BuiltAsBuilt ==
    [][/\ BuildStep
          => /\ TreeHoldsBuilderNodes
             /\ order' = BuilderKeys(builder)
       /\ AddStep
          => /\ EdgesLeaveRoot
             /\ \A i \in 1..Len(builder.nodes) :
                    \A k \in 1..Len(builder.nodes[i].children) :
                        EdgeOf(builder'.nodes[i], builder.nodes[i].children[k][1])
                            = builder.nodes[i].children[k][2]]_vars

\* The keys of the built tree: the root id, then the builder's other ids in
\* the order of the builder's dict.
RootFirst(b) == <<b.root_id>> \o SelectSeq(BuilderKeys(b), LAMBDA id : id # b.root_id)

\* The node a call of add_decision, add_action or add_leaf stores: of the
\* call's kind, with its callable or outcome, without default and without
\* edges.
FreshNode ==
    [node_id |-> AddedId,
     node_type |-> CASE call'.op = "add_decision" -> "decision"
                     [] call'.op = "add_action" -> "action"
                     [] OTHER -> "leaf",
     action |-> IF call'.op = "add_action" THEN call'.action ELSE "<None>",
     children |-> <<>>,
     default_child |-> "<None>",
     outcome |-> IF call'.op = "add_leaf" THEN call'.outcome ELSE "<None>"]

\* C20 as amended: the built tree's mapping holds exactly the builder's
\* nodes, its keys being the root id followed by the builder's other ids in
\* the builder's insertion order, and its root is the node stored under the
\* builder's root id; every edge drawn by add_decision, or by
\* add_action/add_leaf given an answer, leaves the current root; such a call
\* replaces the node registered under the id it adds by a fresh node without
\* edges (a new id goes last), sets the root's edge for its answer, replacing
\* the edge the root had for that answer, and changes nothing else.
C20_BuiltRootFirst ==
    [][/\ BuildStep
          => /\ TreeHoldsBuilderNodes
             /\ order' = RootFirst(builder)
       /\ AddStep
          => /\ EdgesLeaveRoot
             /\ builder'.root_id = builder.root_id
             /\ BuilderKeys(builder') =
                    IF Added(builder, AddedId)
                        THEN BuilderKeys(builder)
                        ELSE Append(BuilderKeys(builder), AddedId)
             /\ \A i \in 1..Len(builder'.nodes) :
                    LET id == builder'.nodes[i].node_id
                    IN  CASE id = AddedId /\ ~(DrawsEdge /\ id = builder.root_id) ->
                                 builder'.nodes[i] = FreshNode
                          [] id = AddedId ->
                                 builder'.nodes[i] =
                                     [FreshNode EXCEPT !.children =
                                         <<<<call'.answer, AddedId>>>>]
                          [] id # AddedId /\ DrawsEdge /\ id = builder.root_id ->
                                 OnlyEdgeSet(i, call'.answer, AddedId)
                          [] OTHER -> builder'.nodes[i] = builder.nodes[i]]_vars

\* build() returned a tree of two nodes whose root, added second, has an
\* edge to the node added first: the tree's keys start with the root id, the
\* builder's do not.
C20_Witness ==
    /\ call.op = "build"
    /\ ret.raised = None
    /\ Len(builder.nodes) = 2
    /\ builder.nodes[2].node_id = builder.root_id
    /\ order = <<builder.nodes[2].node_id, builder.nodes[1].node_id>>
    /\ root = builder.nodes[2]
    /\ Len(root.children) = 1
    /\ root.children[1][2] = builder.nodes[1].node_id

-----------------------------------------------------------------------------
(* C21 *)

\* C21: after construction and any add_node and set_root calls, a tree that
\* has a root holds it in the node mapping: the node stored under the root's
\* id is the root itself, so a traverse starts from the node that
\* get_node(root id) returns, also after add_node has replaced the node
\* registered under the root's id.
C21_RootInMapping ==
    root # NullNode
    => /\ root.node_id \in DOMAIN nodes
       /\ nodes[root.node_id] = root

-----------------------------------------------------------------------------
(* C22 *)

\* The result under construction after k passes through the loop of the
\* traverse just made (after the last pass, if the loop ended before).
ResultAfter(k) == Iterate(k, WalkStart, call.context, call.evaluator).result

\* C22: in every result returned by a traverse that did not read the cache,
\* and in the result under construction after every pass through its loop,
\* node_count equals the length of path and is at most 100; on a tree with a
\* root it is at least 1.  (The loop makes one pass per id of the returned
\* path, the k-th leaving k ids, and at most 100.)
C22_CountIsPathLength ==
    (call.op = "traverse" /\ ~call.use_cache)
    => /\ Result.node_count = Len(Result.path)
       /\ Result.node_count <= 100
       /\ root # NullNode
          => /\ Result.node_count >= 1
             /\ ResultAfter(100) = Result
             /\ \A k \in 1..Len(Result.path) :
                    LET result == ResultAfter(k)
                    IN  /\ result.node_count = Len(result.path)
                        /\ result.node_count = k

\* A walk that went round a cycle until it was cut off: 100 ids, counted
\* one by one.
C22_Witness ==
    /\ FreshTraverse
    /\ Result.node_count = 100
    /\ Len(Result.path) = 100
    /\ ResultAfter(1).node_count = 1
    /\ ResultAfter(37).node_count = 37
    /\ ResultAfter(100) = Result

-----------------------------------------------------------------------------
(* C23 *)

\* The ids node points to: the targets of its edges and its default child.
Targets(node) ==
    {node.children[k][2] : k \in 1..Len(node.children)} \cup {node.default_child}

\* C23: in every result of a traverse that walked a tree with a root, the
\* path starts with the root's id, every id of it is the id of a node the
\* walk looked up (the root, then keys of the node mapping), each id after
\* the first is a target of an edge, or the default child, of the node
\* visited before it, and reached_leaf = TRUE only if the last node visited
\* satisfies the leaf condition.
C23_PathFollowsLinks ==
    FreshTraverse
    => /\ Len(Result.path) >= 1
       /\ Result.path[1] = root.node_id
       /\ \A i \in 2..Len(Result.path) :
              /\ Result.path[i] \in DOMAIN nodes
              /\ Result.path[i] \in Targets(VisitedNode(i - 1))
       /\ Result.reached_leaf => LeafCondition(LastVisited)

\* A walk that left the root by its default child, which no edge of the root
\* leads to, and ended there at a leaf.
C23_Witness ==
    /\ FreshTraverse
    /\ Len(Result.path) = 2
    /\ Result.path[2] = root.default_child
    /\ \A k \in 1..Len(root.children) : root.children[k][2] # Result.path[2]
    /\ Result.reached_leaf
    /\ LeafCondition(get_node(Result.path[2]))

-----------------------------------------------------------------------------
(* C24 *)

\* The nodes a walk can step to from node: by an edge or by the default
\* child.
Links(node) ==
    IF LeafCondition(node)
        THEN {}
        ELSE {nodes[id] : id \in Targets(node) \cap DOMAIN nodes}

RECURSIVE LinkedFrom(_)
LinkedFrom(S) ==
    LET more == S \cup UNION {Links(n) : n \in S}
    IN  IF more = S THEN S ELSE LinkedFrom(more)

\* No node the root reaches, by edges or default children, is reached again
\* from where it points to.
AcyclicByLinks ==
    \A n \in LinkedFrom({root}) : n \notin LinkedFrom(Links(n))

\* What get_all_paths returns on the tree as it is.
AllPaths == dfs(root, <<>>, 0).paths

\* C24: on a tree that is finite and acyclic from the root, the path of
\* every traverse that returns reached_leaf = TRUE, whatever the context and
\* the evaluator, is one of the paths get_all_paths returns, also when the
\* walk advanced through a default_child.  (Read on trees whose root is the
\* node registered under its id, that hold no node under the empty id, and
\* that are acyclic along default children as well as along edges.)
C24_PathsCoverTraverse ==
    (/\ FreshTraverse
     /\ root = get_node(root.node_id)
     /\ "" \notin DOMAIN nodes
     /\ AcyclicFromRoot
     /\ AcyclicByLinks
     /\ Result.reached_leaf)
    => \E i \in 1..Len(AllPaths) : AllPaths[i] = Result.path

====
